---- MODULE Spec2Model ----
(***************************************************************************)
(* Model of Main_Analysis_Pipeline.py: the start-up removal of the store,  *)
(* initialize_database (CSV -> "cell-count" -> subject_table,              *)
(* project_table, sample_table), the wide-to-long reshape with             *)
(* percentages, the join/filter to the cohort and the per-population       *)
(* Welch t-test loop.                                                      *)
(*                                                                         *)
(* Text values that the code parses or orders (subject and sample          *)
(* identifiers) are sequences of one-character strings; all other text     *)
(* values are plain strings.                                               *)
(***************************************************************************)
EXTENDS Integers, Sequences, FiniteSets, TLC

VARIABLES
    feed,            \* which family of CSV contents the input file is drawn from
    pc,              \* position of the script
    db,              \* the file Loblaw_Bio_cell_count.db and its tables
    handles,         \* sqlite3 connections currently open
    conn,            \* the connection the global name conn is bound to (0: none)
    error,           \* exception that ended the script (NoError if none)
    prior,           \* what the start-up check found at db_path
    df_total_melt,   \* long-form frame of Part 2
    filtered_df,     \* cohort frame of Part 3
    stats_results    \* rows appended by the statistics loop

vars == <<feed, pc, db, handles, conn, error, prior, df_total_melt, filtered_df, stats_results>>

(***************************************************************************)
(* Bounds of the model.                                                    *)
(***************************************************************************)
MaxRows == 2
MaxSuffixLen == 5

(***************************************************************************)
(* Text helpers.                                                           *)
(***************************************************************************)
Digits == <<"0", "1", "2", "3", "4", "5", "6", "7", "8", "9">>

IsDigit(c) == \E i \in 1..10 : Digits[i] = c

DigitValue(c) == (CHOOSE i \in 1..10 : Digits[i] = c) - 1

\* code points of the characters the model's identifiers use
CharCode(c) ==
    CASE c = " " -> 32
      [] c = "+" -> 43
      [] c = "-" -> 45
      [] IsDigit(c) -> 48 + DigitValue(c)
      [] c = "b" -> 98
      [] c = "j" -> 106
      [] c = "s" -> 115
      [] c = "u" -> 117
      [] c = "x" -> 120

\* text comparison of sort_values: code point by code point, a proper prefix first
RECURSIVE LexLess(_, _)
LexLess(a, b) ==
    IF b = <<>> THEN FALSE
    ELSE IF a = <<>> THEN TRUE
    ELSE IF CharCode(Head(a)) # CharCode(Head(b)) THEN CharCode(Head(a)) < CharCode(Head(b))
    ELSE LexLess(Tail(a), Tail(b))

\* SUBSTR(s, start): the characters of s from the 1-based position start on
SUBSTR(s, start) == IF start > Len(s) THEN <<>> ELSE SubSeq(s, start, Len(s))

RECURSIVE SkipSpaces(_)
SkipSpaces(s) == IF s # <<>> /\ Head(s) = " " THEN SkipSpaces(Tail(s)) ELSE s

\* value of the longest run of digits at the start of s, continuing from acc
RECURSIVE LeadingDigits(_, _)
LeadingDigits(s, acc) ==
    IF s # <<>> /\ IsDigit(Head(s))
    THEN LeadingDigits(Tail(s), 10 * acc + DigitValue(Head(s)))
    ELSE acc

\* CAST(s AS INTEGER): leading blanks, an optional sign, the longest digit
\* prefix; 0 when there is no digit prefix
CastInteger(s) ==
    LET t == SkipSpaces(s) IN
    IF t # <<>> /\ Head(t) = "-" THEN 0 - LeadingDigits(Tail(t), 0)
    ELSE IF t # <<>> /\ Head(t) = "+" THEN LeadingDigits(Tail(t), 0)
    ELSE LeadingDigits(t, 0)

\* decimal digits of a natural number
RECURSIVE Decimal(_)
Decimal(n) == IF n < 10 THEN <<Digits[n + 1]>> ELSE Decimal(n \div 10) \o <<Digits[(n % 10) + 1]>>

RECURSIVE ZeroPad(_, _)
ZeroPad(s, width) == IF Len(s) >= width THEN s ELSE ZeroPad(<<"0">> \o s, width)

\* variant: the width of '%03d'
Printf03d(n) ==
    IF n < 0 THEN <<"-">> \o ZeroPad(Decimal(0 - n), 2) ELSE ZeroPad(Decimal(n), 3)

\* PRINTF('%04d', n): minimum width 4, zero filled, the sign counts in the width
Printf04d(n) ==
    IF n < 0 THEN <<"-">> \o ZeroPad(Decimal(0 - n), 3) ELSE ZeroPad(Decimal(n), 4)

\* 'sbj' || PRINTF('%04d', CAST(SUBSTR(subject, 4) AS INTEGER))
NormalizeSubject(subject) == <<"s", "b", "j">> \o Printf04d(CastInteger(SUBSTR(subject, 4)))

(***************************************************************************)
(* Sequence helpers.                                                       *)
(***************************************************************************)
Range(s) == {s[i] : i \in 1..Len(s)}

RECURSIVE Concat(_)
Concat(ss) == IF ss = <<>> THEN <<>> ELSE Head(ss) \o Concat(Tail(ss))

(***************************************************************************)
(* The input file cell-count.csv.  Its content is read once per run by     *)
(* pd.read_csv; the model draws it from bounded families of files.         *)
(***************************************************************************)
melt_cols == <<"b_cell", "cd8_t_cell", "cd4_t_cell", "nk_cell", "monocyte">>

SampleIds == {<<"s", "1">>, <<"s", "2">>}

\* subject columns of a raw row: identifier and the subject's attributes
SubjectParts ==
    {[subject |-> <<"s", "b", "j", "1">>, condition |-> "melanoma", treatment |-> "miraclib", response |-> "yes"],
     [subject |-> <<"s", "u", "b", "0", "1">>, condition |-> "melanoma", treatment |-> "miraclib", response |-> "yes"],
     [subject |-> <<"s", "b", "j", "1">>, condition |-> "melanoma", treatment |-> "miraclib", response |-> "no"],
     [subject |-> <<"s", "b", "j", "x">>, condition |-> "carcinoma", treatment |-> "phauximab", response |-> "yes"]}

\* sample columns of a raw row: project, specimen type and the five counts
SampleParts ==
    {[project |-> "prj1", sample_type |-> "PBMC", counts |-> <<10, 0, 0, 0, 0>>],
     [project |-> "prj1", sample_type |-> "WB", counts |-> <<10, 0, 0, 0, 0>>],
     [project |-> "prj2", sample_type |-> "PBMC", counts |-> <<1, 2, 3, 4, 5>>],
     [project |-> "prj1", sample_type |-> "PBMC", counts |-> <<0, 0, 0, 0, 0>>]}

RawRow(sample, sp, pp) ==
    [sample |-> sample, subject |-> sp.subject, project |-> pp.project,
     condition |-> sp.condition, age |-> 50, sex |-> "M",
     treatment |-> sp.treatment, response |-> sp.response,
     sample_type |-> pp.sample_type, time_from_treatment_start |-> 0,
     b_cell |-> pp.counts[1], cd8_t_cell |-> pp.counts[2], cd4_t_cell |-> pp.counts[3],
     nk_cell |-> pp.counts[4], monocyte |-> pp.counts[5]]

RawRows == {RawRow(s, sp, pp) : s \in SampleIds, sp \in SubjectParts, pp \in SampleParts}

\* the files of the cohort family with n data rows
CohortCsvs(n) == [1..n -> RawRows]

\* one-row files whose subject identifier is a prefix and n further characters
Prefixes == {<<"s", "b", "j">>, <<"s", "u">>, <<"s", "u", "b", "j">>}

SuffixChars == {"0", "1", "-", "x"}

RawIdentifiers(n) == {p \o s : p \in Prefixes, s \in [1..n -> SuffixChars]}

IdentifierCsvs(n) ==
    {<<RawRow(<<"s", "1">>,
              [subject |-> id, condition |-> "melanoma", treatment |-> "miraclib", response |-> "yes"],
              [project |-> "prj1", sample_type |-> "PBMC", counts |-> <<10, 0, 0, 0, 0>>])>> :
        id \in RawIdentifiers(n)}

\* cohort files with n responders and n non-responders, one sample each
CountVectors == {<<10, 0, 0, 0, 0>>, <<1, 2, 3, 4, 5>>}

GroupCsvs(n) ==
    {[k \in 1..(2 * n) |->
        RawRow(<<"s", Digits[k + 1]>>,
               [subject |-> <<"s", "b", "j", Digits[k + 1]>>, condition |-> "melanoma",
                treatment |-> "miraclib", response |-> IF k <= n THEN "yes" ELSE "no"],
               [project |-> "prj1", sample_type |-> "PBMC", counts |-> c[k]])] :
        c \in [1..(2 * n) -> CountVectors]}

\* size parameter of a family, and the files of that size
InputSizes(f) ==
    CASE f = "cohort" -> 0..MaxRows
      [] f = "groups" -> 2..MaxRows
      [] f = "identifiers" -> 0..MaxSuffixLen

InputCsvs(f, n) ==
    CASE f = "cohort" -> CohortCsvs(n)
      [] f = "groups" -> GroupCsvs(n)
      [] f = "identifiers" -> IdentifierCsvs(n)

(***************************************************************************)
(* The store: the database file and its four tables.  A table is a         *)
(* sequence of rows in rowid order.                                        *)
(***************************************************************************)
Absent == [present |-> FALSE, rows |-> <<>>]

NoDb == [exists |-> FALSE, cell_count |-> Absent, subject_table |-> Absent,
         project_table |-> Absent, sample_table |-> Absent]

NoError == <<>>

\* sqlite3.IntegrityError messages, as the words SQLite puts in them
UniqueFailed(table, column) == <<"IntegrityError", "UNIQUE constraint failed:", table, column>>

ForeignKeyFailed == <<"IntegrityError", "FOREIGN KEY constraint failed">>

AlreadyExists(table) == <<"OperationalError", "table already exists:", table>>

\* variant: no removal at start-up
KeepStore(d) == d

\* if os.path.exists(db_path): os.remove(db_path)
RemoveStore(d) == IF d.exists THEN NoDb ELSE d

\* sqlite3.connect(db_path) creates the file when it is missing
Connect(d) == [d EXCEPT !.exists = TRUE]

\* df_raw.to_sql('cell-count', conn, if_exists='replace', index=False)
ToSqlReplace(d, df_raw) == [d EXCEPT !.cell_count = [present |-> TRUE, rows |-> df_raw]]

\* the foreign keys sample_table declares: <<column, parent table, parent column>>
ForeignKeys == {<<"subject", "subject_table", "subject">>, <<"project", "project_table", "project">>}

\* DROP TABLE IF EXISTS t, with PRAGMA foreign_keys = ON: the implicit DELETE
\* fails when a sample_table row references a row of t
DropTableIfExists(st, t) ==
    IF st.err # NoError \/ ~st.db[t].present THEN st
    ELSE IF \E fk \in ForeignKeys :
              /\ fk[2] = t
              /\ \E c \in Range(st.db.sample_table.rows), p \in Range(st.db[t].rows) :
                     c[fk[1]] = p[fk[3]]
         THEN [st EXCEPT !.err = ForeignKeyFailed]
         ELSE [st EXCEPT !.db[t] = Absent]

\* CREATE TABLE t (...)
CreateTable(st, t) ==
    IF st.err # NoError THEN st
    ELSE IF st.db[t].present THEN [st EXCEPT !.err = AlreadyExists(t)]
    ELSE [st EXCEPT !.db[t] = [present |-> TRUE, rows |-> <<>>]]

\* variant: SELECT without DISTINCT
SelectAll(rows) == rows

\* SELECT DISTINCT: each row once, in order of first occurrence
RECURSIVE SelectDistinct(_)
SelectDistinct(rows) ==
    IF rows = <<>> THEN <<>>
    ELSE LET front == SelectDistinct(SubSeq(rows, 1, Len(rows) - 1))
             last == rows[Len(rows)]
         IN IF last \in Range(front) THEN front ELSE Append(front, last)

\* PRIMARY KEY on column key: two of the rows to store share the key
UniqueViolated(rows, key) ==
    \E i, j \in 1..Len(rows) : i < j /\ rows[i][key] = rows[j][key]

\* FOREIGN KEY check of the rows to store against the parent tables
ForeignKeyViolated(d, rows) ==
    \E fk \in ForeignKeys, i \in 1..Len(rows) :
        ~\E p \in Range(d[fk[2]].rows) : p[fk[3]] = rows[i][fk[1]]

(***************************************************************************)
(* initialize_database: the statements of sql_script, run in order by      *)
(* cursor.executescript, which stops at the first statement that fails.    *)
(* st is [db, err]; a statement leaves st alone once err is set.           *)
(***************************************************************************)
SubjectRow(r) ==
    [subject |-> NormalizeSubject(r.subject), condition |-> r.condition, age |-> r.age,
     sex |-> r.sex, treatment |-> r.treatment, response |-> r.response]

SubjectRows(rows) == [i \in 1..Len(rows) |-> SubjectRow(rows[i])]

ProjectRow(r) == [project |-> r.project, sample_type |-> r.sample_type]

ProjectRows(rows) == [i \in 1..Len(rows) |-> ProjectRow(rows[i])]

SampleRow(r) ==
    [sample |-> r.sample, subject |-> NormalizeSubject(r.subject), project |-> r.project,
     time_from_treatment_start |-> r.time_from_treatment_start,
     b_cell |-> r.b_cell, cd8_t_cell |-> r.cd8_t_cell, cd4_t_cell |-> r.cd4_t_cell,
     nk_cell |-> r.nk_cell, monocyte |-> r.monocyte]

SampleRows(rows) == [i \in 1..Len(rows) |-> SampleRow(rows[i])]

\* an INSERT is atomic: either every row is appended or the table is unchanged
StoreRows(st, t, rows) == [st EXCEPT !.db[t].rows = @ \o rows]

\* INSERT INTO subject_table ... SELECT DISTINCT <normalized subject>, condition, ...
InsertSubjects(st) ==
    IF st.err # NoError THEN st
    ELSE LET rows == SelectDistinct(SubjectRows(st.db.cell_count.rows))
         IN IF UniqueViolated(st.db.subject_table.rows \o rows, "subject")
            THEN [st EXCEPT !.err = UniqueFailed("subject_table", "subject")]
            ELSE StoreRows(st, "subject_table", rows)

\* variant: project_table without its PRIMARY KEY
InsertProjectsUnchecked(st) ==
    IF st.err # NoError THEN st
    ELSE StoreRows(st, "project_table", SelectDistinct(ProjectRows(st.db.cell_count.rows)))

\* INSERT INTO project_table ... SELECT DISTINCT project, sample_type
InsertProjects(st) ==
    IF st.err # NoError THEN st
    ELSE LET rows == SelectDistinct(ProjectRows(st.db.cell_count.rows))
         IN IF UniqueViolated(st.db.project_table.rows \o rows, "project")
            THEN [st EXCEPT !.err = UniqueFailed("project_table", "project")]
            ELSE StoreRows(st, "project_table", rows)

\* variant: sample_table without its PRIMARY KEY and FOREIGN KEYs
InsertSamplesUnchecked(st) ==
    IF st.err # NoError THEN st
    ELSE StoreRows(st, "sample_table", SampleRows(st.db.cell_count.rows))

\* INSERT INTO sample_table ... SELECT sample, <normalized subject>, project, ...
InsertSamples(st) ==
    IF st.err # NoError THEN st
    ELSE LET rows == SampleRows(st.db.cell_count.rows)
         IN IF UniqueViolated(st.db.sample_table.rows \o rows, "sample")
            THEN [st EXCEPT !.err = UniqueFailed("sample_table", "sample")]
            ELSE IF ForeignKeyViolated(st.db, rows)
            THEN [st EXCEPT !.err = ForeignKeyFailed]
            ELSE StoreRows(st, "sample_table", rows)

\* the whole function, from sqlite3.connect to conn.commit()
initialize_database(d, csv) ==
    LET loaded == [db |-> ToSqlReplace(Connect(d), csv), err |-> NoError]
        withSubjects == InsertSubjects(CreateTable(DropTableIfExists(loaded, "subject_table"), "subject_table"))
        withProjects == InsertProjects(CreateTable(DropTableIfExists(withSubjects, "project_table"), "project_table"))
    IN InsertSamples(CreateTable(DropTableIfExists(withProjects, "sample_table"), "sample_table"))

(***************************************************************************)
(* Part 2: total_count, melt, sort by sample, percentage.                  *)
(***************************************************************************)
RECURSIVE SumOver(_, _)
SumOver(r, cols) == IF cols = <<>> THEN 0 ELSE r[Head(cols)] + SumOver(r, Tail(cols))

\* variant: the sum misses the last population column
TotalCountDroppingLast(r) == SumOver(r, SubSeq(melt_cols, 1, Len(melt_cols) - 1))

\* df_samples_total[[...five columns...]].sum(axis = 1)
TotalCount(r) == SumOver(r, melt_cols)

\* one melted row: the id_vars (every column outside melt_cols), population, count
MeltRow(r, col) ==
    [sample |-> r.sample, subject |-> r.subject, project |-> r.project,
     time_from_treatment_start |-> r.time_from_treatment_start,
     total_count |-> TotalCount(r), population |-> col, count |-> r[col]]

\* pd.melt: the block of rows of the first value column, then of the second, ...
Melt(df) == Concat([c \in 1..Len(melt_cols) |-> [i \in 1..Len(df) |-> MeltRow(df[i], melt_cols[c])]])

\* stable insertion of r behind the rows whose sample is not greater
RECURSIVE InsertBySample(_, _)
InsertBySample(sorted, r) ==
    IF sorted = <<>> THEN <<r>>
    ELSE IF LexLess(r.sample, sorted[Len(sorted)].sample)
         THEN Append(InsertBySample(SubSeq(sorted, 1, Len(sorted) - 1), r), sorted[Len(sorted)])
         ELSE Append(sorted, r)

\* df_total_melt.sort_values(by='sample').reset_index(drop=True)
RECURSIVE SortBySample(_)
SortBySample(df) ==
    IF df = <<>> THEN <<>>
    ELSE InsertBySample(SortBySample(SubSeq(df, 1, Len(df) - 1)), df[Len(df)])

\* float division of two non-negative counts, kept exact: a quotient num/den,
\* or what IEEE division gives for a zero divisor
Divide(count, total) ==
    IF total # 0 THEN [kind |-> "num", num |-> count, den |-> total]
    ELSE IF count = 0 THEN [kind |-> "nan", num |-> 0, den |-> 0]
    ELSE [kind |-> "inf", num |-> count, den |-> 0]

WithPercentage(r) == r @@ [percentage |-> Divide(r.count, r.total_count)]

Reshape(df_samples) ==
    LET sorted == SortBySample(Melt(df_samples))
    IN [k \in 1..Len(sorted) |-> WithPercentage(sorted[k])]

SummaryRow(r) ==
    [sample |-> r.sample, total_count |-> r.total_count, population |-> r.population,
     count |-> r.count, percentage |-> r.percentage]

summary_table == [k \in 1..Len(df_total_melt) |-> SummaryRow(df_total_melt[k])]

(***************************************************************************)
(* Part 3: inner joins with subject_table and project_table, cohort        *)
(* filter, and the statistics loop.                                        *)
(***************************************************************************)
\* pd.merge(left, right, on=key, how='inner'): left order, one row per match
Merge(left, right, key) ==
    Concat([i \in 1..Len(left) |->
              LET matches == SelectSeq(right, LAMBDA q : q[key] = left[i][key])
              IN [k \in 1..Len(matches) |-> left[i] @@ matches[k]]])

InCohort(r) == r.treatment = "miraclib" /\ r.condition = "melanoma" /\ r.sample_type = "PBMC"

FilteredFrame(melt, d) ==
    SelectSeq(Merge(Merge(melt, d.subject_table.rows, "subject"), d.project_table.rows, "project"),
              InCohort)

Percentages(df, cell, response) ==
    LET group == SelectSeq(df, LAMBDA r : r.population = cell /\ r.response = response)
    IN [k \in 1..Len(group) |-> group[k].percentage]

\* a == b as floats
SameValue(a, b) == a.kind = "num" /\ b.kind = "num" /\ a.num * b.den = b.num * a.den

\* stats.ttest_ind(a, b, equal_var=False) returns a number only when both
\* groups have two or more values, none is NaN and they are not all equal;
\* otherwise its p-value is NaN.  The number itself is not computed here: the
\* statistics loop takes either side of the 0.05 threshold for it.
TTestDefined(a, b) ==
    /\ Len(a) >= 2 /\ Len(b) >= 2
    /\ \A x \in Range(a) \cup Range(b) : x.kind = "num"
    /\ \E x, y \in Range(a) \cup Range(b) : ~SameValue(x, y)

\* df['population'].unique(): the populations in order of first appearance
Unique(df) == SelectDistinct([k \in 1..Len(df) |-> df[k].population])

populations == Unique(filtered_df)

\* the rows the loop appends: below is the set of populations whose p-value
\* is a number smaller than 0.05
StatsRows(df, below) ==
    LET cells == Unique(df)
        p_val(cell) ==
            IF ~TTestDefined(Percentages(df, cell, "yes"), Percentages(df, cell, "no")) THEN "nan"
            ELSE IF cell \in below THEN "lt_0.05" ELSE "ge_0.05"
    IN [i \in 1..Len(cells) |->
           [Population |-> cells[i], p_value |-> p_val(cells[i]),
            verdict |-> IF p_val(cells[i]) = "lt_0.05" THEN "Significant" ELSE "NOT Significant"]]

\* the populations of df for which ttest_ind returns a number
TestablePopulations(df) ==
    {cell \in Range(melt_cols) :
        TTestDefined(Percentages(df, cell, "yes"), Percentages(df, cell, "no"))}

(***************************************************************************)
(* The script as a state machine.                                          *)
(***************************************************************************)
\* before the first run nothing exists at db_path
InitFeed(fs) ==
    /\ feed \in fs
    /\ pc = "start"
    /\ db = NoDb
    /\ handles = {}
    /\ conn = 0
    /\ error = NoError
    /\ prior = "none"
    /\ df_total_melt = <<>>
    /\ filtered_df = <<>>
    /\ stats_results = <<>>

Init == InitFeed({"cohort", "groups"})

InitIdentifiers == InitFeed({"identifiers"})

\* lines 11-14: remove the store of an earlier run
Startup ==
    /\ pc = "start"
    /\ prior' = IF ~db.exists THEN "none"
                ELSE IF db.sample_table.rows = <<>> THEN "no samples" ELSE "samples"
    /\ db' = RemoveStore(db)
    /\ pc' = "init"
    /\ UNCHANGED <<feed, handles, conn, error, df_total_melt, filtered_df, stats_results>>

\* line 134: conn = initialize_database(csv_path, db_path); an exception of
\* executescript leaves the function before conn is returned or closed
InitializeDatabase ==
    /\ pc = "init"
    /\ \E n \in InputSizes(feed) : \E csv \in InputCsvs(feed, n) :
         LET st == initialize_database(db, csv) IN
         /\ db' = st.db
         /\ error' = st.err
         /\ handles' = handles \cup {1}
         /\ conn' = IF st.err = NoError THEN 1 ELSE 0
         /\ pc' = IF st.err = NoError THEN "part2" ELSE "failed"
    /\ UNCHANGED <<feed, prior, df_total_melt, filtered_df, stats_results>>

\* lines 138-154
Part2 ==
    /\ pc = "part2"
    /\ df_total_melt' = Reshape(db.sample_table.rows)
    /\ pc' = "part3"
    /\ UNCHANGED <<feed, db, handles, conn, error, prior, filtered_df, stats_results>>

\* lines 158-170: the with block binds conn to a second connection and commits
\* on exit without closing it; the first connection loses its last reference
\* and is closed by its finalizer whenever the interpreter collects it
Part3 ==
    /\ pc = "part3"
    /\ \E collected \in BOOLEAN :
         handles' = (IF collected THEN handles \ {conn} ELSE handles) \cup {2}
    /\ conn' = 2
    /\ filtered_df' = FilteredFrame(df_total_melt, db)
    /\ pc' = "stats"
    /\ UNCHANGED <<feed, db, error, prior, df_total_melt, stats_results>>

\* lines 219-236
Statistics ==
    /\ pc = "stats"
    /\ \E below \in SUBSET TestablePopulations(filtered_df) :
         stats_results' = StatsRows(filtered_df, below)
    /\ pc' = "done"
    /\ UNCHANGED <<feed, db, handles, conn, error, prior, df_total_melt, filtered_df>>

\* the script is run again: a new process, the file at db_path is still there
Rerun ==
    /\ pc \in {"done", "failed"}
    /\ pc' = "start"
    /\ handles' = {}
    /\ conn' = 0
    /\ error' = NoError
    /\ prior' = "none"
    /\ df_total_melt' = <<>>
    /\ filtered_df' = <<>>
    /\ stats_results' = <<>>
    /\ UNCHANGED <<feed, db>>

Next == Startup \/ InitializeDatabase \/ Part2 \/ Part3 \/ Statistics \/ Rerun

Spec == Init /\ [][Next]_vars

SpecIdentifiers == InitIdentifiers /\ [][Next]_vars

(***************************************************************************)
(* Vocabulary of the properties.                                           *)
(***************************************************************************)
\* initialize_database has run in this run of the script
Ran == pc \in {"part2", "part3", "stats", "done", "failed"}

\* ... and returned normally
Completed == pc \in {"part2", "part3", "stats", "done"}

\* ... and Part 2 has run as well
Reshaped == pc \in {"part3", "stats", "done"}

raw == db.cell_count.rows

subjects == db.subject_table.rows

projects == db.project_table.rows

samples == db.sample_table.rows

\* ^sbj\d{4}$
MatchesSbj4(s) ==
    /\ Len(s) = 7
    /\ s[1] = "s" /\ s[2] = "b" /\ s[3] = "j"
    /\ \A k \in 4..7 : IsDigit(s[k])

\* the identifier ends in a decimal digit
EndsInDigits(id) == id # <<>> /\ IsDigit(id[Len(id)])

IsLetter(c) == c \in {"b", "j", "s", "u", "x"}

\* number of decimal digits at the end of the identifier
RECURSIVE TrailingDigitCount(_)
TrailingDigitCount(id) ==
    IF id # <<>> /\ IsDigit(id[Len(id)])
    THEN 1 + TrailingDigitCount(SubSeq(id, 1, Len(id) - 1))
    ELSE 0

\* letters followed by at least one decimal digit and nothing else: the
\* identifier has a parseable trailing numeric suffix
LettersThenDigits(id) ==
    /\ TrailingDigitCount(id) >= 1
    /\ \A k \in 1..(Len(id) - TrailingDigitCount(id)) : IsLetter(id[k])

\* the number the trailing digits denote
SuffixValue(id) == LeadingDigits(SUBSTR(id, Len(id) - TrailingDigitCount(id) + 1), 0)

\* the subject_id stored for raw row i in sample_table is the subject_id of a
\* subject_table row
InBothRelations(i) == \E j \in 1..Len(subjects) : subjects[j].subject = samples[i].subject

C2_MalformedIdentifierAborts ==
    Ran =>
        ((\E i \in 1..Len(raw) : ~EndsInDigits(raw[i].subject)) =>
            /\ pc = "failed"
            /\ error # NoError /\ error[1] = "MalformedIdentifier"
            /\ subjects = <<>> /\ samples = <<>>)

\* the normalized identifiers of the raw rows
RawSubjectIds == {NormalizeSubject(raw[i].subject) : i \in 1..Len(raw)}

\* the Subject relation holds exactly one row per normalized raw identifier
OneRowPerSubject ==
    /\ \A id \in RawSubjectIds : Cardinality({j \in 1..Len(subjects) : subjects[j].subject = id}) = 1
    /\ \A j \in 1..Len(subjects) : subjects[j].subject \in RawSubjectIds

\* the raw rows of one subject agree on the subject's attributes
SubjectsConsistent ==
    \A i, j \in 1..Len(raw) :
        NormalizeSubject(raw[i].subject) = NormalizeSubject(raw[j].subject) =>
            /\ raw[i].condition = raw[j].condition /\ raw[i].age = raw[j].age
            /\ raw[i].sex = raw[j].sex /\ raw[i].treatment = raw[j].treatment
            /\ raw[i].response = raw[j].response

\* C3 as stated: after normalization the Subject relation holds exactly one row
\* per distinct normalized subject_id of the raw input, whatever the raw rows
\* of a subject are.
C3_AlwaysOneRowPerSubject == Ran => OneRowPerSubject

\* C3 amended: when the raw rows of each subject agree on condition, age, sex,
\* treatment and response, the Subject relation holds exactly one row per
\* distinct normalized subject_id; when they disagree, the insert fails on the
\* primary key, the script stops and the Subject relation is left empty.
C3_OneRowPerConsistentSubject ==
    Ran =>
        IF SubjectsConsistent THEN OneRowPerSubject
        ELSE /\ pc = "failed"
             /\ error = UniqueFailed("subject_table", "subject")
             /\ db.subject_table = [present |-> TRUE, rows |-> <<>>]

\* two raw rows with different raw identifiers of one subject became one row
C3_Witness ==
    /\ Ran
    /\ Len(raw) = 2
    /\ raw[1].subject # raw[2].subject
    /\ NormalizeSubject(raw[1].subject) = NormalizeSubject(raw[2].subject)
    /\ Len(subjects) = 1

\* some project of the raw input comes with two different sample_type values
ProjectConflict ==
    \E i, j \in 1..Len(raw) : raw[i].project = raw[j].project /\ raw[i].sample_type # raw[j].sample_type

OffendingProjects ==
    {raw[i].project : i \in {k \in 1..Len(raw) :
        \E j \in 1..Len(raw) : raw[k].project = raw[j].project /\ raw[k].sample_type # raw[j].sample_type}}

OneRowPerProject ==
    /\ \A i \in 1..Len(raw) : Cardinality({j \in 1..Len(projects) : projects[j].project = raw[i].project}) = 1
    /\ \A j \in 1..Len(projects) : \E i \in 1..Len(raw) : raw[i].project = projects[j].project

C5_SampleKeysAndReferences ==
    Completed =>
        /\ \A i, j \in 1..Len(samples) : samples[i].sample = samples[j].sample => i = j
        /\ \A i \in 1..Len(samples) :
              /\ \E j \in 1..Len(subjects) : subjects[j].subject = samples[i].subject
              /\ \E j \in 1..Len(projects) : projects[j].project = samples[i].project

\* two samples of different subjects and projects were stored
C5_Witness ==
    /\ Completed
    /\ Len(samples) = 2
    /\ samples[1].subject # samples[2].subject
    /\ samples[1].project # samples[2].project

\* C6: whatever store an earlier run left, a run ends with exactly the store
\* (and the outcome) a run on a clean store gives for the same input.
C6_SameAsOnCleanStore ==
    Ran =>
        /\ db = initialize_database(NoDb, raw).db
        /\ error = initialize_database(NoDb, raw).err

\* a run on an empty input completed although the earlier run's store held
\* sample rows: none of them is left
C6_Witness ==
    /\ Completed
    /\ prior = "samples"
    /\ raw = <<>>
    /\ samples = <<>> /\ subjects = <<>> /\ projects = <<>>

\* C7 as stated: no undefined percentage is produced for a sample whose total is
\* 0, and none reaches the join, the filter or the comparison.
C7_NoUndefinedPercentage ==
    Reshaped =>
        /\ \A k \in 1..Len(df_total_melt) : df_total_melt[k].percentage.kind = "num"
        /\ \A k \in 1..Len(filtered_df) : filtered_df[k].percentage.kind = "num"
        /\ (\E i \in 1..Len(samples) :
                samples[i].b_cell + samples[i].cd8_t_cell + samples[i].cd4_t_cell
                    + samples[i].nk_cell + samples[i].monocyte = 0)
             => error # NoError

RECURSIVE SumField(_, _)
SumField(rows, f) == IF rows = <<>> THEN 0 ELSE rows[1][f] + SumField(Tail(rows), f)

\* C8: for every Sample row with non-zero total the long frame holds exactly
\* five rows, one per population, each with total_count the sum of the five
\* counts and percentage count/total_count; the counts sum to total_count and
\* the percentages to 1.
C8_FiveRowsPerSample ==
    Reshaped =>
        \A i \in 1..Len(samples) :
            LET r == samples[i]
                total == r.b_cell + r.cd8_t_cell + r.cd4_t_cell + r.nk_cell + r.monocyte
                long == SelectSeq(df_total_melt, LAMBDA m : m.sample = r.sample)
            IN total # 0 =>
                 /\ Len(long) = 5
                 /\ \A c \in {"b_cell", "cd8_t_cell", "cd4_t_cell", "nk_cell", "monocyte"} :
                       \E k \in 1..5 :
                           /\ long[k].population = c
                           /\ long[k].count = r[c]
                           /\ long[k].total_count = total
                           /\ long[k].percentage = [kind |-> "num", num |-> r[c], den |-> total]
                 /\ SumField(long, "count") = total
                 /\ SumField([k \in 1..Len(long) |-> long[k].percentage], "num") = total
                 /\ \A k \in 1..5 : long[k].percentage.den = total

\* a sample with several non-zero populations has been reshaped
C8_Witness ==
    /\ Reshaped
    /\ \E i \in 1..Len(samples) : samples[i].cd8_t_cell > 0 /\ samples[i].monocyte > 0
    /\ Len(df_total_melt) = 5 * Len(samples)

GroupSize(cell, response) == Len(Percentages(filtered_df, cell, response))

\* C9 as stated: a verdict row is emitted only for a population whose two
\* response groups both have at least 2 observations; a population with a
\* smaller group is in the output with status insufficient_data instead.
C9_VerdictOnlyWithTwoPerGroup ==
    pc = "done" =>
        /\ \A k \in 1..Len(stats_results) :
              "verdict" \in DOMAIN stats_results[k] =>
                  /\ GroupSize(stats_results[k].Population, "yes") >= 2
                  /\ GroupSize(stats_results[k].Population, "no") >= 2
        /\ \A cell \in Range(populations) :
              (GroupSize(cell, "yes") < 2 \/ GroupSize(cell, "no") < 2) =>
                  \E k \in 1..Len(stats_results) :
                      /\ stats_results[k].Population = cell
                      /\ "status" \in DOMAIN stats_results[k]

\* C10 as stated: when the run ends, normally or by an error of normalization,
\* no connection is left open.
C10_NoHandleOpenAtEnd == pc \in {"done", "failed"} => handles = {}

====
